---- MODULE Spec2Model ----
(***************************************************************************)
(* Prompt Enhancement Workflow Engine of langraph_agents:                  *)
(* PromptEnhancerWorkflow.enhance_prompt / enhance_prompt_with_full_state, *)
(* the compiled graph (generate_concept -> enhance_details ->              *)
(* {generate_json, generate_xml, generate_natural_language} -> finalize),  *)
(* the node functions and their retry / fallback paths, the cached         *)
(* capability clients and the persistence sink.                            *)
(*                                                                         *)
(* Text is a sequence of one-character strings; "NUL" stands for a         *)
(* character that is not legal in an XML document (U+0000).  An Optional   *)
(* value is a sequence of length at most one: None is <<>>, a present     *)
(* value x is <<x>>.  Scores are hundredths (50 is 0.5).                   *)
(***************************************************************************)
EXTENDS Integers, Sequences, FiniteSets, TLC

VARIABLES
    api,            \* which entry point the caller uses
    user_prompt,    \* the argument of the call
    pc,             \* position of the caller inside the entry point
    attempt,        \* loop variable of "for attempt in range(2)" in enhance_prompt
    initial_state,  \* create_input_state(...) (all fields but config)
    config,         \* the ConfigSettings object shared by initial_state and the graph state
    state,          \* the graph's channel values (VideoPromptState fields but config)
    node,           \* position of the graph run
    concept_try,    \* loop variable of "for attempt in range(3)" in generate_concept
    snapshot,       \* the channel values the Stage-3 node functions were called with
    branch,         \* position of each Stage-3 node function in the current superstep
    writes,         \* partial updates returned by finished Stage-3 nodes, in completion order
    llm_cache,      \* temperatures held by the lru_cache of _get_cached_llm
    constructed,    \* number of ChatGoogleGenerativeAI clients constructed, per temperature
    calls,          \* outcome of each capability call of the current graph run
    trace,          \* nodes of the current graph run in the order they ran
    invokes,        \* number of graph.invoke calls made by the entry point
    sink,           \* what save_generation_outputs has written, in order
    output          \* what the entry point returned (None until it returns)

vars == <<api, user_prompt, pc, attempt, initial_state, config, state, node,
          concept_try, snapshot, branch, writes, llm_cache, constructed, calls, trace,
          invokes, sink, output>>

---------------------------------------------------------------------------
(* Optional values and Python truthiness *)

None == <<>>
Some(x) == <<x>>
IsNone(o) == o = <<>>
Val(o) == o[1]

\* Python "a or b" for Optional[str]: None and "" are falsy.
OrText(o, alt) == IF IsNone(o) \/ Val(o) = <<>> THEN alt ELSE Val(o)

---------------------------------------------------------------------------
(* Text *)

Whitespace == {" "}

\* str.strip(): what lies between the first and the last character that is not whitespace
Strip(s) ==
    LET kept == {i \in 1..Len(s) : s[i] \notin Whitespace} IN
    IF kept = {} THEN <<>>
    ELSE SubSeq(s, CHOOSE i \in kept : \A j \in kept : i <= j,
                   CHOOSE i \in kept : \A j \in kept : j <= i)

Upper == [c \in {"Q", "Z", "C", "P"} |->
            CASE c = "Q" -> "q" [] c = "Z" -> "z" [] c = "C" -> "c" [] c = "P" -> "p"]

\* str.lower()
Lower(s) == [i \in 1..Len(s) |-> IF s[i] \in DOMAIN Upper THEN Upper[s[i]] ELSE s[i]]

\* "kw in text": substring search
Contains(text, kw) ==
    \E i \in 1..(Len(text) - Len(kw) + 1) : SubSeq(text, i, i + Len(kw) - 1) = kw


---------------------------------------------------------------------------
(* ConfigSettings and the keyword pass of Stage 2 *)

CameraConfig == [movement |-> "static", angle |-> "medium_shot", lens |-> "50mm_equivalent"]

StyleConfig == [aesthetic |-> "photorealistic", rendering |-> "high_quality",
                color_palette |-> None]

ConfigSettings == [duration_seconds |-> 8, aspect_ratio |-> "16:9", generate_audio |-> TRUE,
                   camera |-> CameraConfig, style |-> StyleConfig]

KwQuick == <<"q", "u", "i", "c", "k">>
KwBrief == <<"b", "r", "i", "e", "f">>
KwLong == <<"l", "o", "n", "g">>
KwExtended == <<"e", "x", "t", "e", "n", "d", "e", "d">>
KwZoom == <<"z", "o", "o", "m">>
KwPan == <<"p", "a", "n">>
KwStatic == <<"s", "t", "a", "t", "i", "c">>
KwCinematic == <<"c", "i", "n", "e", "m", "a", "t", "i", "c">>
KwDocumentary == <<"d", "o", "c", "u", "m", "e", "n", "t", "a", "r", "y">>
KwCommercial == <<"c", "o", "m", "m", "e", "r", "c", "i", "a", "l">>

ExtractDuration(concept_lower, old) ==
    IF Contains(concept_lower, KwQuick) \/ Contains(concept_lower, KwBrief) THEN 5
    ELSE IF Contains(concept_lower, KwLong) \/ Contains(concept_lower, KwExtended) THEN 12
    ELSE old

\* ExtractMovement testing "pan" before "zoom"
ExtractMovementPanFirst(concept_lower, old) ==
    IF Contains(concept_lower, KwPan) THEN "pan"
    ELSE IF Contains(concept_lower, KwZoom) THEN "zoom_in"
    ELSE IF Contains(concept_lower, KwStatic) THEN "static"
    ELSE old

ExtractMovement(concept_lower, old) ==
    IF Contains(concept_lower, KwZoom) THEN "zoom_in"
    ELSE IF Contains(concept_lower, KwPan) THEN "pan"
    ELSE IF Contains(concept_lower, KwStatic) THEN "static"
    ELSE old

ExtractAesthetic(concept_lower, old) ==
    IF Contains(concept_lower, KwCinematic) THEN "cinematic"
    ELSE IF Contains(concept_lower, KwDocumentary) THEN "documentary"
    ELSE IF Contains(concept_lower, KwCommercial) THEN "commercial"
    ELSE old

\* _extract_config_from_concept: the object it is given is the one it returns, updated
\* in place.
ExtractConfigFromConcept(concept, current_config) ==
    LET concept_lower == Lower(concept) IN
    [current_config EXCEPT
        !.duration_seconds = ExtractDuration(concept_lower, @),
        !.camera.movement = ExtractMovement(concept_lower, @),
        !.style.aesthetic = ExtractAesthetic(concept_lower, @)]

---------------------------------------------------------------------------
(* XML: serialisation, parsing, the two ways generate_xml_format builds a document *)

XmlDeclaration == "<?xml version=\"1.0\" encoding=\"UTF-8\"?>"

Amp == <<"&", "a", "m", "p", ";">>
Lt == <<"&", "l", "t", ";">>
Gt == <<"&", "g", "t", ";">>

EscapeChar(c) == IF c = "&" THEN Amp ELSE IF c = "<" THEN Lt ELSE IF c = ">" THEN Gt ELSE <<c>>

\* every character from position i on replaced by its escaped form
RECURSIVE EscapeFrom(_, _)
EscapeFrom(text, i) ==
    IF i > Len(text) THEN <<>> ELSE EscapeChar(text[i]) \o EscapeFrom(text, i + 1)

\* xml.sax.saxutils.escape (the text is bound once, then escaped)
xml_escape(text) == CHOOSE escaped \in {EscapeFrom(t, 1) : t \in {text}} : TRUE

\* the character-data escaping of xml.etree.ElementTree.tostring
EscapeCdata(text) == CHOOSE escaped \in {EscapeFrom(t, 1) : t \in {text}} : TRUE

\* What an XML parser accepts as the character data of an element: legal characters
\* only, no "<", and "&" only as the start of a predefined entity reference.
CharDataOk(text) ==
    \A i \in 1..Len(text) :
        /\ text[i] # "NUL"
        /\ text[i] # "<"
        /\ text[i] = "&" =>
              \E ent \in {Amp, Lt, Gt} :
                  /\ i + Len(ent) - 1 <= Len(text)
                  /\ SubSeq(text, i, i + Len(ent) - 1) = ent

\* SafeET.fromstring(doc) does not raise.  The element structure of both documents is
\* balanced by construction; the free text is what a parser can reject.
Parses(doc) ==
    /\ doc.declaration = XmlDeclaration
    /\ \A child \in {doc.children[i] : i \in 1..Len(doc.children)} : CharDataOk(child.text)

CameraText == <<"Standard camera setup with natural framing">>
StyleText == <<"Clean, professional visual style with natural lighting">>
DefaultNegative == <<"b", "l", "u", "r">>          \* "blurry, low quality, distorted"
FallbackNegative == <<"b", "l", "u", "r", "p">>    \* "blurry, low quality, distorted, poor lighting"
Pad == <<" ">>                                     \* newline and indentation of the template

\* The document generate_xml_format builds from the state and a config: the elements
\* of its try block, serialised by XET.tostring behind the declaration.
XmlDocument(s, cfg) ==
    [declaration |-> XmlDeclaration,
     root |-> "prompt",
     children |-> <<
        [tag |-> "description", attrs |-> <<>>,
         text |-> EscapeCdata(Strip(OrText(s.enhanced_concept, s.original_prompt)))],
        [tag |-> "negative", attrs |-> <<>>,
         text |-> EscapeCdata(Strip(OrText(s.negative_prompt, DefaultNegative)))],
        [tag |-> "camera",
         attrs |-> [movement |-> cfg.camera.movement, angle |-> cfg.camera.angle,
                    lens |-> cfg.camera.lens],
         text |-> CameraText],
        [tag |-> "style",
         attrs |-> [aesthetic |-> cfg.style.aesthetic, rendering |-> cfg.style.rendering],
         text |-> StyleText] >>]

\* ConstructXml reading a fresh ConfigSettings() instead of state.config
ConstructXmlDefaultConfig(s, cfg) == XmlDocument(s, ConfigSettings)

\* generate_xml_format, the try block: "config = state.config or ConfigSettings()"
ConstructXml(s, cfg) == XmlDocument(s, cfg)

_create_fallback_xml(s) ==
    [declaration |-> XmlDeclaration,
     root |-> "prompt",
     children |-> <<
        [tag |-> "description", attrs |-> <<>>,
         text |-> Pad \o xml_escape(OrText(s.enhanced_concept, s.original_prompt)) \o Pad],
        [tag |-> "negative", attrs |-> <<>>,
         text |-> Pad \o xml_escape(OrText(s.negative_prompt, DefaultNegative)) \o Pad],
        [tag |-> "camera",
         attrs |-> [movement |-> "static", angle |-> "medium_shot", lens |-> "50mm"],
         text |-> Pad \o CameraText \o Pad],
        [tag |-> "style",
         attrs |-> [aesthetic |-> "photorealistic", rendering |-> "high_quality"],
         text |-> Pad \o StyleText \o Pad] >>]

\* generate_xml_format: the constructed document if the parser accepts it, else the
\* fallback template.
generate_xml_format(s, cfg) ==
    LET Validated(final_xml) ==
            IF Parses(final_xml)
            THEN [xml_prompt |-> Some(final_xml)]
            ELSE [xml_prompt |-> Some(_create_fallback_xml(s))]
    IN  CHOOSE update \in {Validated(final_xml) : final_xml \in {ConstructXml(s, cfg)}} : TRUE

---------------------------------------------------------------------------
(* The state record and the node functions (State -> partial update) *)

Note(fmt, arg) == [fmt |-> fmt, arg |-> arg]

ErrGeneration == "generation failure"
ErrInit == "LLM initialization error"

\* create_input_state; the config field is the separate object "config"
create_input_state(prompt) ==
    [original_prompt |-> prompt,
     enhanced_concept |-> None,
     json_prompt |-> None,
     xml_prompt |-> None,
     natural_language_prompt |-> None,
     negative_prompt |-> None,
     enhancement_notes |-> <<Note("Workflow initialized", "")>>,
     current_step |-> "initialized",
     enhancement_quality_score |-> None]

\* How the executor applies a node's partial update to the channels.
ApplyUpdate(s, u) == [k \in DOMAIN s |-> IF k \in DOMAIN u THEN u[k] ELSE s[k]]

\* The updates of one superstep applied in order: for each key the last update that
\* has it decides.
ApplyAll(s, us) ==
    [k \in DOMAIN s |->
        LET having == {i \in 1..Len(us) : k \in DOMAIN us[i]} IN
        IF having = {} THEN s[k]
        ELSE us[CHOOSE i \in having : \A j \in having : j <= i][k]]

\* ConceptSuccess leaving the quality score unset
ConceptSuccessNoScore(s, result) ==
    [enhanced_concept |-> Some(result.enhanced_prompt),
     negative_prompt |-> Some(result.negative_prompt),
     enhancement_notes |-> s.enhancement_notes \o result.enhancement_notes,
     enhancement_quality_score |-> None,
     current_step |-> "concept_generated"]

\* generate_concept: what a successful attempt (primary or strict) returns
ConceptSuccess(s, result) ==
    [enhanced_concept |-> Some(result.enhanced_prompt),
     negative_prompt |-> Some(result.negative_prompt),
     enhancement_notes |-> s.enhancement_notes \o result.enhancement_notes,
     enhancement_quality_score |-> Some(result.quality_score),
     current_step |-> "concept_generated"]

\* ConceptFallback without a quality score
ConceptFallbackNoScore(s, e) ==
    [enhanced_concept |-> Some(s.original_prompt),
     negative_prompt |-> Some(FallbackNegative),
     enhancement_notes |->
        s.enhancement_notes \o <<Note("Concept generation failed, using fallback: ", e)>>,
     enhancement_quality_score |-> None,
     current_step |-> "concept_generated_fallback"]

\* generate_concept: the except branch
ConceptFallback(s, e) ==
    [enhanced_concept |-> Some(s.original_prompt),
     negative_prompt |-> Some(FallbackNegative),
     enhancement_notes |->
        s.enhancement_notes \o <<Note("Concept generation failed, using fallback: ", e)>>,
     enhancement_quality_score |-> Some(50),
     current_step |-> "concept_generated_fallback"]

\* DetailsSuccess returning the notes it was given
DetailsSuccessNoNote(s, detailed_concept) ==
    [enhanced_concept |-> Some(detailed_concept),
     enhancement_notes |-> s.enhancement_notes,
     current_step |-> "details_enhanced"]

\* DetailsSuccess also resetting negative_prompt to the default
DetailsSuccessResetsNegative(s, detailed_concept) ==
    [enhanced_concept |-> Some(detailed_concept),
     negative_prompt |-> Some(DefaultNegative),
     enhancement_notes |->
        s.enhancement_notes \o <<Note("Added technical and stylistic details", "")>>,
     current_step |-> "details_enhanced"]

\* enhance_with_details: the success return (config is updated through the object)
DetailsSuccess(s, detailed_concept) ==
    [enhanced_concept |-> Some(detailed_concept),
     enhancement_notes |->
        s.enhancement_notes \o <<Note("Added technical and stylistic details", "")>>,
     current_step |-> "details_enhanced"]

\* DetailsFailure also returning enhanced_concept as absent
DetailsFailureClearsConcept(s, e) ==
    [enhanced_concept |-> None,
     enhancement_notes |->
        s.enhancement_notes \o <<Note("Detail enhancement failed: ", e)>>,
     current_step |-> "details_enhanced_fallback"]

\* DetailsFailure returning its own note only
DetailsFailureDropsNotes(s, e) ==
    [enhancement_notes |-> <<Note("Detail enhancement failed: ", e)>>,
     current_step |-> "details_enhanced_fallback"]

\* enhance_with_details: the except branch
DetailsFailure(s, e) ==
    [enhancement_notes |->
        s.enhancement_notes \o <<Note("Detail enhancement failed: ", e)>>,
     current_step |-> "details_enhanced_fallback"]

\* generate_json_format: what a successful call (first or strict) returns
JsonSuccess(result) ==
    [json_prompt |-> Some([prompt |-> result.prompt,
                           negative_prompt |-> result.negative_prompt,
                           config |-> result.config])]

\* _create_fallback_json with the default negative prompt of Stage 1's fallback
CreateFallbackJsonLongNegative(s) ==
    [prompt |-> OrText(s.enhanced_concept, s.original_prompt),
     negative_prompt |-> OrText(s.negative_prompt, FallbackNegative),
     config |-> [duration_seconds |-> 8, aspect_ratio |-> "16:9", generate_audio |-> TRUE,
                 camera |-> [movement |-> "static", angle |-> "medium_shot",
                             lens |-> "50mm_equivalent"],
                 style |-> [aesthetic |-> "photorealistic", rendering |-> "high_quality"]]]

\* _create_fallback_json without "or state.original_prompt"
CreateFallbackJsonNoOriginal(s) ==
    [prompt |-> IF IsNone(s.enhanced_concept) THEN <<>> ELSE Val(s.enhanced_concept),
     negative_prompt |-> OrText(s.negative_prompt, DefaultNegative),
     config |-> [duration_seconds |-> 8, aspect_ratio |-> "16:9", generate_audio |-> TRUE,
                 camera |-> [movement |-> "static", angle |-> "medium_shot",
                             lens |-> "50mm_equivalent"],
                 style |-> [aesthetic |-> "photorealistic", rendering |-> "high_quality"]]]

_create_fallback_json(s) ==
    [prompt |-> OrText(s.enhanced_concept, s.original_prompt),
     negative_prompt |-> OrText(s.negative_prompt, DefaultNegative),
     config |-> [duration_seconds |-> 8, aspect_ratio |-> "16:9", generate_audio |-> TRUE,
                 camera |-> [movement |-> "static", angle |-> "medium_shot",
                             lens |-> "50mm_equivalent"],
                 style |-> [aesthetic |-> "photorealistic", rendering |-> "high_quality"]]]

\* JsonFallback also filling in the natural-language field
JsonFallbackAlsoNl(s) ==
    [json_prompt |-> Some(_create_fallback_json(s)),
     natural_language_prompt |-> s.enhanced_concept]

\* JsonFallback also filling in the XML field
JsonFallbackAlsoXml(s) ==
    [json_prompt |-> Some(_create_fallback_json(s)),
     xml_prompt |-> Some(_create_fallback_xml(s))]

\* generate_json_format: both "return {"json_prompt": _create_fallback_json(state)}"
JsonFallback(s) == [json_prompt |-> Some(_create_fallback_json(s))]

\* NlFallback also recording itself in current_step
NlFallbackAlsoStep(s) ==
    [natural_language_prompt |-> s.enhanced_concept,
     current_step |-> "natural_language_fallback"]

\* NlFallback with the field left absent
NlFallbackAbsent(s) == [natural_language_prompt |-> None]

\* generate_natural_language_format: the success return
NlSuccess(natural_language_output) ==
    [natural_language_prompt |-> Some(natural_language_output)]

\* generate_natural_language_format: the except branch
NlFallback(s) == [natural_language_prompt |-> s.enhanced_concept]

\* finalize_results testing the score with "or" instead of "is not None"
FinalizeResultsFalsyScore(s) ==
    LET has_json == ~IsNone(s.json_prompt)
        has_xml == ~IsNone(s.xml_prompt)
        has_nl == ~IsNone(s.natural_language_prompt)
        final_quality == IF ~IsNone(s.enhancement_quality_score)
                            /\ Val(s.enhancement_quality_score) # 0
                         THEN Val(s.enhancement_quality_score) ELSE 70
    IN  [enhancement_notes |->
            s.enhancement_notes
            \o (IF has_json THEN <<Note("Generated JSON format", "")>> ELSE <<>>)
            \o (IF has_xml THEN <<Note("Generated XML format", "")>> ELSE <<>>)
            \o (IF has_nl THEN <<Note("Generated natural language format", "")>> ELSE <<>>)
            \o (IF ~(has_json /\ has_xml /\ has_nl)
                THEN <<Note("Warning: Missing outputs: ", "missing")>> ELSE <<>>)
            \o <<Note("Enhancement process completed", ""),
                 Note("Final quality score: ", ToString(final_quality))>>,
         enhancement_quality_score |-> Some(final_quality),
         current_step |-> "completed"]

\* finalize_results
finalize_results(s) ==
    LET has_json == ~IsNone(s.json_prompt)
        has_xml == ~IsNone(s.xml_prompt)
        has_nl == ~IsNone(s.natural_language_prompt)
        final_quality == IF ~IsNone(s.enhancement_quality_score)
                         THEN Val(s.enhancement_quality_score) ELSE 70
    IN  [enhancement_notes |->
            s.enhancement_notes
            \o (IF has_json THEN <<Note("Generated JSON format", "")>> ELSE <<>>)
            \o (IF has_xml THEN <<Note("Generated XML format", "")>> ELSE <<>>)
            \o (IF has_nl THEN <<Note("Generated natural language format", "")>> ELSE <<>>)
            \o (IF ~(has_json /\ has_xml /\ has_nl)
                THEN <<Note("Warning: Missing outputs: ", "missing")>> ELSE <<>>)
            \o <<Note("Enhancement process completed", ""),
                 Note("Final quality score: ", ToString(final_quality))>>,
         enhancement_quality_score |-> Some(final_quality),
         current_step |-> "completed"]

EmptyDict == [k \in {} |-> k]

\* extract_output_state: "x or default" for every field
extract_output_state(final_state) ==
    [json_prompt |-> IF IsNone(final_state.json_prompt)
                     THEN EmptyDict ELSE Val(final_state.json_prompt),
     xml_prompt |-> IF IsNone(final_state.xml_prompt)
                    THEN <<>> ELSE Val(final_state.xml_prompt),
     natural_language_prompt |-> OrText(final_state.natural_language_prompt, <<>>),
     enhancement_notes |-> final_state.enhancement_notes,
     quality_score |-> IF IsNone(final_state.enhancement_quality_score)
                       THEN 0 ELSE Val(final_state.enhancement_quality_score),
     saved_dir |-> <<>>]

\* IsEmptyInput without the strip()
IsEmptyInputNoStrip(prompt) == prompt = <<>>

\* the guard of enhance_prompt and enhance_prompt_with_full_state:
\* "not user_prompt or not user_prompt.strip()"
IsEmptyInput(prompt) == prompt = <<>> \/ Strip(prompt) = <<>>

---------------------------------------------------------------------------
(* storage.py: the name of the directory save_generation_outputs writes into *)

SlugChars == {"a", "b", "c", "d", "e", "f", "g", "h", "i", "j", "k", "l", "m", "n", "o",
              "p", "q", "r", "s", "t", "u", "v", "w", "x", "y", "z",
              "0", "1", "2", "3", "4", "5", "6", "7", "8", "9"}

MaxSlugLength == 60

\* str.strip("-")
StripHyphens(s) ==
    LET kept == {i \in 1..Len(s) : s[i] # "-"} IN
    IF kept = {} THEN <<>>
    ELSE SubSeq(s, CHOOSE i \in kept : \A j \in kept : i <= j,
                   CHOOSE i \in kept : \A j \in kept : j <= i)

\* the positions of text that survive re.sub(r"[^a-z0-9]+", "-", text): every
\* character of the class, and the first character of every run of others
FirstOfRuns(text) ==
    SelectSeq([i \in 1..Len(text) |-> i],
              LAMBDA i : text[i] \in SlugChars \/ i = 1 \/ text[i - 1] \in SlugChars)

\* re.sub(r"[^a-z0-9]+", "-", text): every run of other characters becomes one hyphen
Hyphenate(text) ==
    CHOOSE replaced \in
        UNION {{[k \in 1..Len(first) |->
                    IF t[first[k]] \in SlugChars THEN t[first[k]] ELSE "-"]
                : first \in {FirstOfRuns(t)}} : t \in {text}} : TRUE

\* _slugify, from "if len(text) <= max_length" on
TruncateSlug(text) ==
    IF Len(text) <= MaxSlugLength
    THEN (IF text = <<>> THEN <<"p", "r", "o", "m", "p", "t">> ELSE text)
    ELSE LET hyphens == {i \in 1..MaxSlugLength : text[i] = "-"}
             cut == IF hyphens = {} THEN MaxSlugLength
                    ELSE (CHOOSE i \in hyphens : \A j \in hyphens : j <= i) - 1
         IN  IF cut = 0 THEN SubSeq(text, 1, MaxSlugLength) ELSE SubSeq(text, 1, cut)

\* _slugify (each intermediate text is bound once)
_slugify(source) ==
    CHOOSE slug \in
        UNION {UNION {{TruncateSlug(text) : text \in {StripHyphens(hyphenated)}}
                      : hyphenated \in {Hyphenate(lowered)}}
               : lowered \in {Lower(Strip(source))}} : TRUE

\* _unique_suffix: the first characters of the SHA-1 digest of the text, a value that
\* the text determines and nothing else
_unique_suffix(source) == <<"sha1", source>>

\* generation_dir = root / f"{slug}_{timestamp}_{suffix}", timestamp in whole seconds
GenerationDir(original_prompt, timestamp) ==
    CHOOSE generation_dir \in
        {[slug |-> _slugify(source), timestamp |-> timestamp,
          suffix |-> _unique_suffix(source)] : source \in {original_prompt}} : TRUE

---------------------------------------------------------------------------
(* Inputs: the prompts a caller may pass and what the capability may return *)

MaxLlmNotes == 1

Prompts == { <<>>,
             <<" ">>,
             <<" ", "a", "&", "<">>,
             <<"a", "NUL", "b">> }

LlmNotes(k) == [i \in 1..k |-> Note("{}", "note from the capability")]

\* schema-valid EnhancedConcept objects
ConceptResults ==
    { [enhanced_prompt |-> <<"a", " ", "c", "a", "t">>, negative_prompt |-> <<"d", "i", "m">>,
       enhancement_notes |-> LlmNotes(MaxLlmNotes), quality_score |-> 90],
      [enhanced_prompt |-> <<"x", ">", "y">>, negative_prompt |-> <<"&">>,
       enhancement_notes |-> <<>>, quality_score |-> 0],
      [enhanced_prompt |-> <<>>, negative_prompt |-> <<>>,
       enhancement_notes |-> <<>>, quality_score |-> 150] }

\* free text returned for Stage 2
DetailTexts == { <<"Q", "u", "i", "c", "k", " ", "Z", "o", "o", "m", "&">>,
                 <<"c", "i", "n", "e", "m", "a", "t", "i", "c", "NUL">> }

\* Free text for Stage 2 built from the keywords of the keyword pass: any subset of
\* them, in source order or reversed, in lower case or capitalised, separated by blanks.
KeywordList == <<KwQuick, KwBrief, KwLong, KwExtended, KwZoom, KwPan, KwStatic,
                 KwCinematic, KwDocumentary, KwCommercial>>

Capital == [c \in {"q", "z", "c", "p"} |->
              CASE c = "q" -> "Q" [] c = "z" -> "Z" [] c = "c" -> "C" [] c = "p" -> "P"]

Capitalised(word) ==
    [i \in 1..Len(word) |-> IF i = 1 /\ word[i] \in DOMAIN Capital
                             THEN Capital[word[i]] ELSE word[i]]

RECURSIVE JoinWords(_, _, _, _)
JoinWords(chosen, k, reversed, capitals) ==
    IF k > Len(KeywordList) THEN <<>>
    ELSE LET i == IF reversed THEN Len(KeywordList) + 1 - k ELSE k
             word == IF capitals THEN Capitalised(KeywordList[i]) ELSE KeywordList[i]
         IN  (IF i \in chosen THEN word \o <<" ">> ELSE <<>>)
             \o JoinWords(chosen, k + 1, reversed, capitals)

KeywordTexts ==
    {JoinWords(chosen, 1, reversed, capitals) :
        chosen \in SUBSET (1..Len(KeywordList)), reversed \in BOOLEAN, capitals \in BOOLEAN}

\* schema-valid JSONPromptOutput objects
JsonResults ==
    { [prompt |-> <<"a", " ", "c", "a", "t">>, negative_prompt |-> <<"d", "i", "m">>,
       config |-> [duration_seconds |-> 8]],
      [prompt |-> <<>>, negative_prompt |-> <<>>, config |-> [duration_seconds |-> 5]] }

\* free text returned for the natural-language branch
NlTexts == { <<"o", "n", "c", "e">> }

DefaultTemp == "0.7"
StrictTemp == "0.2"

\* datetime.now() in whole seconds, counted from the second of the first save; the
\* clock does not go back between two saves
MaxSecond == 1

Seconds(written) ==
    IF written = <<>> THEN {0} ELSE written[Len(written)].dir.timestamp..MaxSecond

---------------------------------------------------------------------------
(* The state after construction: a caller about to use one of the entry points *)

NoBranches == [json |-> "idle", json_try |-> 0, xml |-> "idle", nl |-> "idle"]

Init ==
    /\ api \in {"enhance_prompt", "enhance_prompt_with_full_state"}
    /\ user_prompt \in Prompts
    /\ pc = "start"
    /\ attempt = 0
    /\ initial_state = None
    /\ config = ConfigSettings
    /\ state = None
    /\ node = "idle"
    /\ concept_try = 0
    /\ snapshot = None
    /\ branch = NoBranches
    /\ writes = <<>>
    /\ llm_cache = {}
    /\ constructed = [t \in {DefaultTemp, StrictTemp} |-> 0]
    /\ calls = <<>>
    /\ trace = <<>>
    /\ invokes = 0
    /\ sink = <<>>
    /\ output = None

\* what the graph run does not touch, and what the entry points do not touch
GraphFrame == <<api, user_prompt, pc, attempt, initial_state, invokes, sink, output>>
CallerFrame == <<config, state, node, concept_try, snapshot, branch, writes, llm_cache,
                 constructed, calls, trace>>

\* A capability call (chain.invoke) at a call site, with its outcome.
Called(site, ok, result) ==
    calls' = Append(calls, [site |-> site, ok |-> ok, result |-> result])

\* A node function returned "update": the executor applies it and records the node.
Returned(name, update) ==
    /\ state' = Some(ApplyUpdate(Val(state), update))
    /\ trace' = Append(trace, name)

\* initialize_llm(t) succeeded: one more client of that temperature exists.
initialize_llm(t) == constructed' = [constructed EXCEPT ![t] = @ + 1]

\* _get_cached_llm(t) returned a client: the cached one, or a new one that is now cached.
\* (lru_cache does not cache a call that raised.)
_get_cached_llm(t) ==
    IF t \in llm_cache
    THEN UNCHANGED <<llm_cache, constructed>>
    ELSE llm_cache' = llm_cache \cup {t} /\ initialize_llm(t)

---------------------------------------------------------------------------
(* The entry points: PromptEnhancerWorkflow.enhance_prompt and                *)
(* enhance_prompt_with_full_state                                             *)

InvokeAttempts == 2

\* "raise ValueError" of both entry points
RejectEmpty ==
    /\ pc = "start"
    /\ IsEmptyInput(user_prompt)
    /\ pc' = "ValueError"
    /\ UNCHANGED <<api, user_prompt, attempt, initial_state, invokes, sink, output>>
    /\ UNCHANGED CallerFrame

\* initial_state = create_input_state(user_prompt.strip())
CreateState ==
    /\ pc = "start"
    /\ ~IsEmptyInput(user_prompt)
    /\ initial_state' = Some(create_input_state(Strip(user_prompt)))
    /\ attempt' = 0
    /\ pc' = "call_graph"
    /\ UNCHANGED <<api, user_prompt, invokes, sink, output>>
    /\ UNCHANGED CallerFrame

\* self.graph.invoke(initial_state): the channels are loaded from initial_state; its
\* config object is the one the nodes will see.
GraphInvoke ==
    /\ pc = "call_graph"
    /\ pc' = "in_graph"
    /\ invokes' = invokes + 1
    /\ state' = initial_state
    /\ node' = "START"
    /\ concept_try' = 0
    /\ snapshot' = None
    /\ branch' = NoBranches
    /\ writes' = <<>>
    /\ calls' = <<>>
    /\ trace' = <<>>
    /\ UNCHANGED <<api, user_prompt, attempt, initial_state, config, llm_cache,
                   constructed, sink, output>>

\* graph.invoke raised.  enhance_prompt: "except Exception as invoke_err" inside the
\* loop, then the next attempt or "raise last_err" into the outer handler;
\* enhance_prompt_with_full_state has no handler.
InvokeFailed ==
    /\ pc = "in_graph"
    /\ node = "raised"
    /\ IF api = "enhance_prompt_with_full_state"
       THEN pc' = "RuntimeError" /\ attempt' = attempt
       ELSE IF attempt + 1 < InvokeAttempts
            THEN pc' = "call_graph" /\ attempt' = attempt + 1
            ELSE pc' = "handler" /\ attempt' = attempt
    /\ UNCHANGED <<api, user_prompt, initial_state, invokes, sink, output>>
    /\ UNCHANGED CallerFrame

\* graph.invoke returned final_state.  enhance_prompt extracts the output;
\* enhance_prompt_with_full_state returns the state.
InvokeReturned ==
    /\ pc = "in_graph"
    /\ node = "END"
    /\ IF api = "enhance_prompt_with_full_state"
       THEN pc' = "returned" /\ output' = state
       ELSE pc' = "save" /\ output' = Some(extract_output_state(Val(state)))
    /\ UNCHANGED <<api, user_prompt, attempt, initial_state, invokes, sink>>
    /\ UNCHANGED CallerFrame

\* save_generation_outputs(...) succeeded; output["saved_dir"] = saved_dir; return output
\* (a path is the sequence of the directories it names: "" is the empty sequence)
SaveOk ==
    /\ pc = "save"
    /\ \E timestamp \in Seconds(sink) :
          /\ sink' = Append(sink, [kind |-> "outputs",
                                   original_prompt |-> Strip(user_prompt),
                                   notes |-> Val(output).enhancement_notes,
                                   dir |-> GenerationDir(Strip(user_prompt), timestamp)])
          /\ output' = Some([Val(output) EXCEPT
                                !.saved_dir = <<GenerationDir(Strip(user_prompt), timestamp)>>])
    /\ pc' = "returned"
    /\ UNCHANGED <<api, user_prompt, attempt, initial_state, invokes>>
    /\ UNCHANGED CallerFrame

\* save_generation_outputs(...) raised: mkdir failed and nothing was written, or a
\* write_text failed in the directory mkdir had made (meta.json, with the notes, is
\* written last).  The outer "except Exception" takes over.
SaveFail ==
    /\ pc = "save"
    /\ \/ sink' = sink
       \/ \E timestamp \in Seconds(sink) :
             sink' = Append(sink, [kind |-> "partial",
                                   original_prompt |-> Strip(user_prompt),
                                   notes |-> <<>>,
                                   dir |-> GenerationDir(Strip(user_prompt), timestamp)])
    /\ output' = None
    /\ pc' = "handler"
    /\ UNCHANGED <<api, user_prompt, attempt, initial_state, invokes>>
    /\ UNCHANGED CallerFrame

\* the outer handler: the best-effort save of minimal artifacts succeeded, then
\* "raise RuntimeError"
FailureSaveOk ==
    /\ pc = "handler"
    /\ \E timestamp \in Seconds(sink) :
          sink' = Append(sink, [kind |-> "failure", original_prompt |-> Strip(user_prompt),
                                notes |-> <<Note("Workflow failed: ", "error")>>,
                                dir |-> GenerationDir(Strip(user_prompt), timestamp)])
    /\ pc' = "RuntimeError"
    /\ UNCHANGED <<api, user_prompt, attempt, initial_state, invokes, output>>
    /\ UNCHANGED CallerFrame

\* the outer handler: the best-effort save raised too ("except Exception: pass"), then
\* "raise RuntimeError"
FailureSaveFail ==
    /\ pc = "handler"
    /\ pc' = "RuntimeError"
    /\ UNCHANGED <<api, user_prompt, attempt, initial_state, invokes, sink, output>>
    /\ UNCHANGED CallerFrame

---------------------------------------------------------------------------
(* Stage 1: generate_concept *)

ConceptAttempts == 3

\* llm = _get_cached_llm() at the top of generate_concept returned a client
ConceptBegin ==
    /\ pc = "in_graph" /\ node = "START"
    /\ _get_cached_llm(DefaultTemp)
    /\ node' = "generate_concept"
    /\ concept_try' = 0
    /\ UNCHANGED <<config, state, snapshot, branch, writes, calls, trace>>
    /\ UNCHANGED GraphFrame

\* llm = _get_cached_llm() raised: it is outside the try block, so the node raises and
\* graph.invoke raises
ConceptCtorFail ==
    /\ pc = "in_graph" /\ node = "START"
    /\ DefaultTemp \notin llm_cache
    /\ node' = "raised"
    /\ UNCHANGED <<config, state, concept_try, snapshot, branch, writes, llm_cache,
                   constructed, calls, trace>>
    /\ UNCHANGED GraphFrame

\* a primary attempt succeeded: return the update
ConceptAttemptOk ==
    /\ pc = "in_graph" /\ node = "generate_concept"
    /\ concept_try < ConceptAttempts
    /\ \E result \in ConceptResults :
          /\ Called("concept", TRUE, Some(result))
          /\ Returned("generate_concept", ConceptSuccess(Val(state), result))
    /\ node' = "enhance_details"
    /\ UNCHANGED <<config, concept_try, snapshot, branch, writes, llm_cache, constructed>>
    /\ UNCHANGED GraphFrame

\* ConceptAttemptFail leaving the loop after the first failure
ConceptAttemptFailGivesUp ==
    /\ pc = "in_graph" /\ node = "generate_concept"
    /\ concept_try < ConceptAttempts
    /\ Called("concept", FALSE, None)
    /\ concept_try' = ConceptAttempts
    /\ UNCHANGED <<config, state, node, snapshot, branch, writes, llm_cache, constructed,
                   trace>>
    /\ UNCHANGED GraphFrame

\* a primary attempt failed: sleep, next attempt (or leave the loop)
ConceptAttemptFail ==
    /\ pc = "in_graph" /\ node = "generate_concept"
    /\ concept_try < ConceptAttempts
    /\ Called("concept", FALSE, None)
    /\ concept_try' = concept_try + 1
    /\ UNCHANGED <<config, state, node, snapshot, branch, writes, llm_cache, constructed,
                   trace>>
    /\ UNCHANGED GraphFrame

\* the strict retry with _get_cached_llm(temperature=0.2) succeeded
ConceptStrictOk ==
    /\ pc = "in_graph" /\ node = "generate_concept"
    /\ concept_try = ConceptAttempts
    /\ _get_cached_llm(StrictTemp)
    /\ \E result \in ConceptResults :
          /\ Called("concept_strict", TRUE, Some(result))
          /\ Returned("generate_concept", ConceptSuccess(Val(state), result))
    /\ node' = "enhance_details"
    /\ UNCHANGED <<config, concept_try, snapshot, branch, writes>>
    /\ UNCHANGED GraphFrame

\* the strict retry's call failed: the except branch returns the fallback
ConceptStrictFail ==
    /\ pc = "in_graph" /\ node = "generate_concept"
    /\ concept_try = ConceptAttempts
    /\ _get_cached_llm(StrictTemp)
    /\ Called("concept_strict", FALSE, None)
    /\ Returned("generate_concept", ConceptFallback(Val(state), ErrGeneration))
    /\ node' = "enhance_details"
    /\ UNCHANGED <<config, concept_try, snapshot, branch, writes>>
    /\ UNCHANGED GraphFrame

\* _get_cached_llm(temperature=0.2) raised inside the try block: the fallback
ConceptStrictCtorFail ==
    /\ pc = "in_graph" /\ node = "generate_concept"
    /\ concept_try = ConceptAttempts
    /\ StrictTemp \notin llm_cache
    /\ Returned("generate_concept", ConceptFallback(Val(state), ErrInit))
    /\ node' = "enhance_details"
    /\ UNCHANGED <<config, concept_try, snapshot, branch, writes, llm_cache, constructed,
                   calls>>
    /\ UNCHANGED GraphFrame

---------------------------------------------------------------------------
(* Stage 2: enhance_with_details.  Its _get_cached_llm() finds the client      *)
(* Stage 1 cached.  The executor then starts the superstep of the three        *)
(* format nodes, each called with the channel values of this moment.           *)

StartFormats ==
    /\ node' = "formats"
    /\ snapshot' = state'
    /\ branch' = [json |-> "first", json_try |-> 0, xml |-> "ready", nl |-> "ready"]

\* the call succeeded with one of the given texts: the text replaces enhanced_concept,
\* the keyword pass updates config
DetailsOkFrom(texts) ==
    /\ pc = "in_graph" /\ node = "enhance_details"
    /\ _get_cached_llm(DefaultTemp)
    /\ \E detailed_concept \in texts :
          /\ Called("details", TRUE, Some(detailed_concept))
          /\ config' = ExtractConfigFromConcept(detailed_concept, config)
          /\ Returned("enhance_details", DetailsSuccess(Val(state), detailed_concept))
    /\ StartFormats
    /\ UNCHANGED <<concept_try, writes>>
    /\ UNCHANGED GraphFrame

DetailsOk == DetailsOkFrom(DetailTexts)

\* the call failed: the except branch
DetailsFail ==
    /\ pc = "in_graph" /\ node = "enhance_details"
    /\ _get_cached_llm(DefaultTemp)
    /\ Called("details", FALSE, None)
    /\ Returned("enhance_details", DetailsFailure(Val(state), ErrGeneration))
    /\ StartFormats
    /\ UNCHANGED <<config, concept_try, writes>>
    /\ UNCHANGED GraphFrame

---------------------------------------------------------------------------
(* Stage 3: the three format nodes of one superstep.  Each works on snapshot;   *)
(* what it returns is kept in writes until the superstep ends.                  *)

JsonStrictAttempts == 2

\* A format node returned "update".
Wrote(name, update) ==
    /\ writes' = Append(writes, update)
    /\ trace' = Append(trace, name)

FormatsFrame == <<config, state, node, concept_try, snapshot>>

\* generate_json_format: the first call succeeded
JsonFirstOk ==
    /\ pc = "in_graph" /\ node = "formats" /\ branch.json = "first"
    /\ _get_cached_llm(DefaultTemp)
    /\ \E result \in JsonResults :
          /\ Called("json", TRUE, Some(result))
          /\ Wrote("generate_json", JsonSuccess(result))
    /\ branch' = [branch EXCEPT !.json = "done"]
    /\ UNCHANGED FormatsFrame
    /\ UNCHANGED GraphFrame

\* generate_json_format: the first call failed; on to the strict retry
JsonFirstFail ==
    /\ pc = "in_graph" /\ node = "formats" /\ branch.json = "first"
    /\ _get_cached_llm(DefaultTemp)
    /\ Called("json", FALSE, None)
    /\ branch' = [branch EXCEPT !.json = "strict_init"]
    /\ UNCHANGED <<writes, trace>>
    /\ UNCHANGED FormatsFrame
    /\ UNCHANGED GraphFrame

\* retry_llm = initialize_llm(temperature=0.2) returned a (new, uncached) client
JsonStrictInit ==
    /\ pc = "in_graph" /\ node = "formats" /\ branch.json = "strict_init"
    /\ initialize_llm(StrictTemp)
    /\ branch' = [branch EXCEPT !.json = "strict", !.json_try = 0]
    /\ UNCHANGED <<writes, trace, llm_cache, calls>>
    /\ UNCHANGED FormatsFrame
    /\ UNCHANGED GraphFrame

\* retry_llm = initialize_llm(temperature=0.2) raised: the inner "except Exception"
JsonStrictCtorFail ==
    /\ pc = "in_graph" /\ node = "formats" /\ branch.json = "strict_init"
    /\ calls' = Append(calls, [site |-> "json_init", ok |-> FALSE, result |-> None])
    /\ Wrote("generate_json", JsonFallback(Val(snapshot)))
    /\ branch' = [branch EXCEPT !.json = "done"]
    /\ UNCHANGED <<llm_cache, constructed>>
    /\ UNCHANGED FormatsFrame
    /\ UNCHANGED GraphFrame

\* a strict attempt succeeded
JsonStrictOk ==
    /\ pc = "in_graph" /\ node = "formats" /\ branch.json = "strict"
    /\ branch.json_try < JsonStrictAttempts
    /\ \E result \in JsonResults :
          /\ Called("json_strict", TRUE, Some(result))
          /\ Wrote("generate_json", JsonSuccess(result))
    /\ branch' = [branch EXCEPT !.json = "done"]
    /\ UNCHANGED <<llm_cache, constructed>>
    /\ UNCHANGED FormatsFrame
    /\ UNCHANGED GraphFrame

\* JsonStrictFail leaving the loop without returning the fallback document
JsonStrictFailStuck ==
    /\ pc = "in_graph" /\ node = "formats" /\ branch.json = "strict"
    /\ branch.json_try < JsonStrictAttempts
    /\ Called("json_strict", FALSE, None)
    /\ branch' = [branch EXCEPT !.json_try = @ + 1]
    /\ UNCHANGED <<writes, trace, llm_cache, constructed>>
    /\ UNCHANGED FormatsFrame
    /\ UNCHANGED GraphFrame

\* a strict attempt failed: sleep and try again, or, after the last one, the fallback
JsonStrictFail ==
    /\ pc = "in_graph" /\ node = "formats" /\ branch.json = "strict"
    /\ branch.json_try < JsonStrictAttempts
    /\ Called("json_strict", FALSE, None)
    /\ IF branch.json_try + 1 < JsonStrictAttempts
       THEN /\ branch' = [branch EXCEPT !.json_try = @ + 1]
            /\ UNCHANGED <<writes, trace>>
       ELSE /\ branch' = [branch EXCEPT !.json = "done", !.json_try = @ + 1]
            /\ Wrote("generate_json", JsonFallback(Val(snapshot)))
    /\ UNCHANGED <<llm_cache, constructed>>
    /\ UNCHANGED FormatsFrame
    /\ UNCHANGED GraphFrame

\* generate_xml_format: no capability call
XmlFormat ==
    /\ pc = "in_graph" /\ node = "formats" /\ branch.xml = "ready"
    /\ Wrote("generate_xml", generate_xml_format(Val(snapshot), config))
    /\ branch' = [branch EXCEPT !.xml = "done"]
    /\ UNCHANGED <<llm_cache, constructed, calls>>
    /\ UNCHANGED FormatsFrame
    /\ UNCHANGED GraphFrame

\* generate_natural_language_format: llm = initialize_llm() and the call succeeded
NlOk ==
    /\ pc = "in_graph" /\ node = "formats" /\ branch.nl = "ready"
    /\ initialize_llm(DefaultTemp)
    /\ \E natural_language_output \in NlTexts :
          /\ Called("nl", TRUE, Some(natural_language_output))
          /\ Wrote("generate_natural_language", NlSuccess(natural_language_output))
    /\ branch' = [branch EXCEPT !.nl = "done"]
    /\ UNCHANGED llm_cache
    /\ UNCHANGED FormatsFrame
    /\ UNCHANGED GraphFrame

\* generate_natural_language_format: the call failed; the except branch
NlFail ==
    /\ pc = "in_graph" /\ node = "formats" /\ branch.nl = "ready"
    /\ initialize_llm(DefaultTemp)
    /\ Called("nl", FALSE, None)
    /\ Wrote("generate_natural_language", NlFallback(Val(snapshot)))
    /\ branch' = [branch EXCEPT !.nl = "done"]
    /\ UNCHANGED llm_cache
    /\ UNCHANGED FormatsFrame
    /\ UNCHANGED GraphFrame

\* llm = initialize_llm() raised: it is outside the try block, so the node raises, the
\* superstep fails and graph.invoke raises
NlCtorFail ==
    /\ pc = "in_graph" /\ node = "formats" /\ branch.nl = "ready"
    /\ node' = "raised"
    /\ UNCHANGED <<config, state, concept_try, snapshot, branch, writes, llm_cache,
                   constructed, calls, trace>>
    /\ UNCHANGED GraphFrame

\* FormatsJoin not waiting for all three nodes
FormatsJoinAny ==
    /\ pc = "in_graph" /\ node = "formats"
    /\ branch.json = "done" \/ branch.xml = "done" \/ branch.nl = "done"
    /\ state' = Some(ApplyAll(Val(state), writes))
    /\ node' = "finalize"
    /\ UNCHANGED <<config, concept_try, snapshot, branch, writes, llm_cache, constructed,
                   calls, trace>>
    /\ UNCHANGED GraphFrame

\* The superstep ends when its three nodes have returned: the executor applies their
\* updates to the channels; "finalize" is the next node.
FormatsJoin ==
    /\ pc = "in_graph" /\ node = "formats"
    /\ branch.json = "done" /\ branch.xml = "done" /\ branch.nl = "done"
    /\ state' = Some(ApplyAll(Val(state), writes))
    /\ node' = "finalize"
    /\ UNCHANGED <<config, concept_try, snapshot, branch, writes, llm_cache, constructed,
                   calls, trace>>
    /\ UNCHANGED GraphFrame

---------------------------------------------------------------------------
(* Stage 4: finalize_results, then END *)

Finalize ==
    /\ pc = "in_graph" /\ node = "finalize"
    /\ Returned("finalize", finalize_results(Val(state)))
    /\ node' = "END"
    /\ UNCHANGED <<config, concept_try, snapshot, branch, writes, llm_cache, constructed,
                   calls>>
    /\ UNCHANGED GraphFrame

---------------------------------------------------------------------------
(* Specifications *)

\* every step in which no capability client fails to be constructed and the graph
\* does not raise
NextConstructed ==
    \/ RejectEmpty \/ CreateState \/ GraphInvoke \/ InvokeReturned
    \/ SaveOk \/ SaveFail \/ FailureSaveOk \/ FailureSaveFail
    \/ ConceptBegin \/ ConceptAttemptOk \/ ConceptAttemptFail
    \/ ConceptStrictOk \/ ConceptStrictFail
    \/ DetailsOk \/ DetailsFail
    \/ JsonFirstOk \/ JsonFirstFail \/ JsonStrictInit \/ JsonStrictOk \/ JsonStrictFail
    \/ XmlFormat \/ NlOk \/ NlFail
    \/ FormatsJoin \/ Finalize

Next ==
    \/ NextConstructed
    \/ ConceptCtorFail \/ ConceptStrictCtorFail \/ JsonStrictCtorFail \/ NlCtorFail
    \/ InvokeFailed

Spec == Init /\ [][Next]_vars

\* Clients can always be constructed; a call in progress continues (every call and
\* every sleep of the retry loops returns).
LiveSpec == Init /\ [][NextConstructed]_vars /\ WF_vars(NextConstructed)

---------------------------------------------------------------------------
(* Stage 2's keyword pass on its own: enhance_with_details is about to make its  *)
(* call, in a first invocation (default config) or in the retry of enhance_prompt *)
(* after an invocation whose keyword pass had changed the config object.          *)

EarlierRunConfig ==
    ExtractConfigFromConcept(<<"l", "o", "n", "g", " ", "p", "a", "n", " ">> \o KwDocumentary,
                             ConfigSettings)

KeywordInit ==
    /\ api = "enhance_prompt"
    /\ user_prompt = <<"a", "NUL", "b">>
    /\ pc = "in_graph"
    /\ initial_state = Some(create_input_state(Strip(user_prompt)))
    /\ \/ attempt = 0 /\ invokes = 1 /\ config = ConfigSettings
       \/ attempt = 1 /\ invokes = 2 /\ config = EarlierRunConfig
    /\ \E result \in {r \in ConceptResults : r.enhancement_notes # <<>>} :
          /\ state = Some(ApplyUpdate(Val(initial_state),
                                      ConceptSuccess(Val(initial_state), result)))
          /\ calls = <<[site |-> "concept", ok |-> TRUE, result |-> Some(result)]>>
    /\ node = "enhance_details"
    /\ concept_try = 0
    /\ snapshot = None
    /\ branch = NoBranches
    /\ writes = <<>>
    /\ llm_cache = {DefaultTemp}
    /\ constructed = [t \in {DefaultTemp, StrictTemp} |-> IF t = DefaultTemp THEN 1 ELSE 0]
    /\ trace = <<"generate_concept">>
    /\ sink = <<>>
    /\ output = None

KeywordPass == DetailsOkFrom(KeywordTexts)

KeywordSpec == KeywordInit /\ [][KeywordPass]_vars

---------------------------------------------------------------------------
(* finalize_results on its own: the node function called with any                *)
(* VideoPromptState, outputs and score present or absent                         *)

FinalizeInputs ==
    [original_prompt : {<<"a", "NUL", "b">>},
     enhanced_concept : {None, Some(<<"x", ">", "y">>)},
     json_prompt : {None, Some(_create_fallback_json(create_input_state(<<"a">>)))},
     xml_prompt : {None, Some(_create_fallback_xml(create_input_state(<<"a">>)))},
     natural_language_prompt : {None, Some(<<>>), Some(<<"o", "n", "c", "e">>)},
     negative_prompt : {None, Some(DefaultNegative)},
     enhancement_notes : {<<>>, <<Note("Workflow initialized", "")>>,
                          <<Note("Workflow initialized", ""),
                            Note("Detail enhancement failed: ", ErrGeneration)>>},
     current_step : {"details_enhanced_fallback"},
     enhancement_quality_score : {None, Some(0), Some(50), Some(150)}]

FinalizeInit ==
    /\ api = "enhance_prompt_with_full_state"
    /\ user_prompt = <<"a", "NUL", "b">>
    /\ pc = "in_graph"
    /\ attempt = 0
    /\ initial_state = Some(create_input_state(Strip(user_prompt)))
    /\ config = ConfigSettings
    /\ state \in {Some(s) : s \in FinalizeInputs}
    /\ node = "finalize"
    /\ concept_try = 0
    /\ snapshot = None
    /\ branch = NoBranches
    /\ writes = <<>>
    /\ llm_cache = {}
    /\ constructed = [t \in {DefaultTemp, StrictTemp} |-> 0]
    /\ calls = <<>>
    /\ trace = <<>>
    /\ invokes = 1
    /\ sink = <<>>
    /\ output = None

FinalizeSpec == FinalizeInit /\ [][Finalize]_vars

---------------------------------------------------------------------------
(* Vocabulary of the properties *)

InGraphEnd == pc = "in_graph" /\ node = "END"
Merged == node \in {"finalize", "END"}

Outcomes(site) == SelectSeq(calls, LAMBDA c : c.site = site)
Failed(site) == SelectSeq(calls, LAMBDA c : c.site = site /\ ~c.ok)
Succeeded(site) == SelectSeq(calls, LAMBDA c : c.site = site /\ c.ok)

Position(name) == CHOOSE i \in 1..Len(trace) : trace[i] = name
Ran(name) == \E i \in 1..Len(trace) : trace[i] = name
Times(name) == Cardinality({i \in 1..Len(trace) : trace[i] = name})
Before(a, b) == Ran(a) /\ Ran(b) /\ Position(a) < Position(b)

FormatNodes == {"generate_json", "generate_xml", "generate_natural_language"}

\* every call the JSON node made failed, or its strict client could not be constructed
JsonFellBack ==
    /\ branch.json = "done"
    /\ Succeeded("json") = <<>> /\ Succeeded("json_strict") = <<>>

\* the three primary attempts and the strict attempt of Stage 1 all failed
ConceptCallsAllFailed ==
    /\ Len(Failed("concept")) = ConceptAttempts
    /\ Len(Failed("concept_strict")) = 1

\* notes whose wording contains the word "fallback"
MentionsFallback(note) == note.fmt \in {"Concept generation failed, using fallback: "}

\* What each format node returns for the snapshot, given the outcomes its calls had.
JsonOf(snap) ==
    IF Succeeded("json") # <<>> THEN JsonSuccess(Val(Succeeded("json")[1].result))
    ELSE IF Succeeded("json_strict") # <<>>
         THEN JsonSuccess(Val(Succeeded("json_strict")[1].result))
         ELSE JsonFallback(snap)

NlOf(snap) ==
    IF Succeeded("nl") # <<>> THEN NlSuccess(Val(Succeeded("nl")[1].result))
    ELSE NlFallback(snap)

XmlOf(snap) == generate_xml_format(snap, config)

\* The channels after the three nodes ran one after the other, JSON first, each update
\* applied before the next node starts.
SequentialFormats ==
    LET s0 == Val(snapshot)
        s1 == ApplyUpdate(s0, JsonOf(s0))
        s2 == ApplyUpdate(s1, XmlOf(s1))
    IN  ApplyUpdate(s2, NlOf(s2))

---------------------------------------------------------------------------
(* C1: whatever calls fail, json_prompt, xml_prompt and natural_language_prompt *)
(* are all present when finalize runs, in the state the graph returns and in    *)
(* what the entry point returns.                                                *)
C1_FormatsPopulated ==
    /\ Merged =>
          /\ ~IsNone(Val(state).json_prompt)
          /\ ~IsNone(Val(state).xml_prompt)
          /\ ~IsNone(Val(state).natural_language_prompt)
    /\ (pc = "returned" /\ api = "enhance_prompt_with_full_state") =>
          /\ ~IsNone(Val(output).json_prompt)
          /\ ~IsNone(Val(output).xml_prompt)
          /\ ~IsNone(Val(output).natural_language_prompt)

\* finalize is about to run after every generation call of the run failed
C1_Witness ==
    /\ node = "finalize"
    /\ Succeeded("concept") = <<>> /\ Succeeded("concept_strict") = <<>>
    /\ Succeeded("details") = <<>> /\ Succeeded("nl") = <<>>
    /\ JsonFellBack /\ Len(Failed("json_strict")) = JsonStrictAttempts

(* C2: for a prompt that is not empty after trimming the entry point never      *)
(* raises: no failure of the capability, the construction of its client         *)
(* included, reaches the caller.                                                *)
C2_NeverRaises ==
    (api = "enhance_prompt" /\ ~IsEmptyInput(user_prompt)) => pc # "RuntimeError"

(* C3: when clients can be constructed every call ends: an empty prompt is      *)
(* rejected, and any other run reaches finalize and ends with current_step =    *)
(* "completed", whatever the generation calls do.                               *)
C3_Terminates ==
    <>(\/ pc = "ValueError"
       \/ (~IsNone(state) /\ Val(state).current_step = "completed"))

\* a run completed although every call failed, after the most attempts a run can make
C3_Witness ==
    /\ ~IsNone(state) /\ Val(state).current_step = "completed"
    /\ Len(Failed("concept")) = ConceptAttempts /\ Len(Failed("concept_strict")) = 1
    /\ Len(Failed("details")) = 1 /\ Len(Failed("nl")) = 1
    /\ Len(Failed("json")) = 1 /\ Len(Failed("json_strict")) = JsonStrictAttempts

(* C4: for an empty or whitespace-only prompt both entry points raise the input *)
(* error before any state is created, any client constructed, any capability    *)
(* call made, the graph invoked or anything written to the sink.                *)
C4_EmptyRejectedFirst ==
    (\A i \in 1..Len(user_prompt) : user_prompt[i] \in Whitespace) =>
        /\ pc \in {"start", "ValueError"}
        /\ IsNone(initial_state) /\ IsNone(state)
        /\ invokes = 0 /\ calls = <<>> /\ sink = <<>>
        /\ \A t \in DOMAIN constructed : constructed[t] = 0

\* a whitespace-only prompt was rejected
C4_Witness == pc = "ValueError" /\ user_prompt # <<>>

(* C5: in a graph run finalize runs at most once, only after the three format   *)
(* nodes have each returned once (through a fallback or not), and exactly once  *)
(* in a run that returns; the format nodes start only after enhance_details     *)
(* returned, and enhance_details only after generate_concept returned.          *)
C5_StageOrder ==
    /\ Times("finalize") <= 1
    /\ Ran("finalize") =>
          \A f \in FormatNodes : Times(f) = 1 /\ Before(f, "finalize")
    /\ node = "END" => Times("finalize") = 1
    /\ \A f \in FormatNodes : Ran(f) => Before("enhance_details", f)
    /\ (Outcomes("json") # <<>> \/ Outcomes("nl") # <<>>) => Ran("enhance_details")
    /\ Ran("enhance_details") =>
          Times("enhance_details") = 1 /\ Before("generate_concept", "enhance_details")
    /\ Outcomes("details") # <<>> => Ran("generate_concept")
    /\ Times("generate_concept") <= 1

\* finalize ran after a JSON node that fell back and returned last
C5_Witness ==
    /\ node = "END" /\ JsonFellBack
    /\ Before("generate_xml", "generate_json")
    /\ Before("generate_natural_language", "generate_json")

(* C6: the state before finalize and the final state do not depend on the order *)
(* in which the three format nodes ran: for the outcomes their calls had, they  *)
(* are what running the nodes one after the other (JSON, XML, natural language) *)
(* gives.                                                                       *)
C6_OrderIndependent ==
    /\ node = "finalize" => Val(state) = SequentialFormats
    /\ node = "END" =>
          Val(state) = ApplyUpdate(SequentialFormats, finalize_results(SequentialFormats))

\* a run whose format nodes returned in the order natural language, XML, JSON
C6_Witness ==
    /\ node = "END"
    /\ Before("generate_natural_language", "generate_xml")
    /\ Before("generate_xml", "generate_json")
    /\ Len(Outcomes("json_strict")) > 0

(* C7: when every call of the JSON node failed, xml_prompt and                  *)
(* natural_language_prompt are what a run with the same snapshot and the same   *)
(* other outcomes has in which the JSON call succeeded.                         *)
C7_JsonIndependent ==
    (Merged /\ JsonFellBack) =>
        \A result \in JsonResults :
            LET s0 == Val(snapshot)
                ref == ApplyAll(s0, <<JsonSuccess(result), XmlOf(s0), NlOf(s0)>>)
            IN  /\ Val(state).xml_prompt = ref.xml_prompt
                /\ Val(state).natural_language_prompt = ref.natural_language_prompt

\* a finished run whose JSON node fell back after the other two nodes had returned
C7_Witness ==
    /\ node = "END" /\ JsonFellBack /\ Len(Failed("json_strict")) = JsonStrictAttempts
    /\ Before("generate_xml", "generate_json")
    /\ Succeeded("nl") # <<>>

(* C8 as stated: if the three primary attempts and the strict attempt of Stage 1 *)
(* all fail, the state at the end of the run has enhanced_concept =              *)
(* original_prompt, quality_score = 0.5 and a note containing "fallback".        *)
C8_FallbackInFinalState ==
    (node = "END" /\ ConceptCallsAllFailed) =>
        /\ Val(state).enhanced_concept = Some(Val(state).original_prompt)
        /\ Val(state).enhancement_quality_score = Some(50)
        /\ \E i \in 1..Len(Val(state).enhancement_notes) :
              MentionsFallback(Val(state).enhancement_notes[i])

(* C8 amended: if the three primary attempts and the strict attempt of Stage 1  *)
(* all fail, enhanced_concept = original_prompt when Stage 1 ends; at the end   *)
(* of the run quality_score = 0.5, a note contains "fallback", and              *)
(* enhanced_concept is the text Stage 2's call returned, or original_prompt if  *)
(* that call failed.                                                            *)
C8_FallbackAfterStage1 ==
    ConceptCallsAllFailed =>
        /\ node = "enhance_details" =>
              Val(state).enhanced_concept = Some(Val(state).original_prompt)
        /\ node = "END" =>
              /\ Val(state).enhanced_concept =
                    IF Succeeded("details") # <<>>
                    THEN Succeeded("details")[1].result
                    ELSE Some(Val(state).original_prompt)
              /\ Val(state).enhancement_quality_score = Some(50)
              /\ \E i \in 1..Len(Val(state).enhancement_notes) :
                    MentionsFallback(Val(state).enhancement_notes[i])

\* a finished run in which Stage 1 fell back and Stage 2's call succeeded
C8_Witness ==
    /\ node = "END" /\ ConceptCallsAllFailed /\ Succeeded("details") # <<>>
    /\ Val(state).enhanced_concept # Some(Val(state).original_prompt)

(* C9: the xml_prompt the XML node returns is a well-formed document on the     *)
(* constructed path and on the fallback path, for every enhanced_concept and    *)
(* negative_prompt, text with characters that are not legal in XML included.    *)
C9_XmlWellFormed ==
    (Merged /\ ~IsNone(Val(state).xml_prompt)) => Parses(Val(Val(state).xml_prompt))

(* C10: when the constructed document passes the parse check, xml_prompt starts *)
(* with the XML declaration, has root prompt with children description,         *)
(* negative, camera, style, and the attributes of camera and style equal the    *)
(* fields of generation_config as Stage 2 left them.                            *)
C10_ConstructedDocument ==
    (Merged /\ Parses(ConstructXml(Val(snapshot), config))) =>
        LET doc == Val(Val(state).xml_prompt) IN
        /\ doc.declaration = "<?xml version=\"1.0\" encoding=\"UTF-8\"?>"
        /\ doc.root = "prompt"
        /\ [i \in 1..Len(doc.children) |-> doc.children[i].tag]
              = <<"description", "negative", "camera", "style">>
        /\ doc.children[3].attrs =
              [movement |-> config.camera.movement, angle |-> config.camera.angle,
               lens |-> config.camera.lens]
        /\ doc.children[4].attrs =
              [aesthetic |-> config.style.aesthetic, rendering |-> config.style.rendering]

\* a constructed document after Stage 2's keyword pass changed the camera movement
C10_Witness ==
    /\ node = "END" /\ Parses(ConstructXml(Val(snapshot), config))
    /\ config.camera.movement = "zoom_in"
    /\ Val(Val(state).xml_prompt).children[3].attrs.movement = "zoom_in"

---------------------------------------------------------------------------
(* Vocabulary of the properties on notes, scores, the sink and the clients *)

IsPrefix(a, b) == Len(a) <= Len(b) /\ SubSeq(b, 1, Len(a)) = a

JsonKeys == {"prompt", "negative_prompt", "config"}

\* every capability call of the run succeeded on its first attempt
FullSuccess ==
    /\ \A i \in 1..Len(calls) : calls[i].ok
    /\ Len(Succeeded("concept")) = 1 /\ Len(Succeeded("details")) = 1
    /\ Len(Succeeded("json")) = 1 /\ Len(Succeeded("nl")) = 1

\* the notes Stage 1's except branch leaves in the state
FallbackNotes ==
    IF IsNone(state) THEN <<>>
    ELSE SelectSeq(Val(state).enhancement_notes, MentionsFallback)

(* C11 as stated: on every path through the JSON node json_prompt has exactly   *)
(* the keys prompt, negative_prompt and config, and its prompt is not empty     *)
(* when original_prompt is not empty.                                           *)
C11_JsonComplete ==
    Merged =>
        LET json_prompt == Val(Val(state).json_prompt) IN
        /\ DOMAIN json_prompt = JsonKeys
        /\ Val(state).original_prompt # <<>> => json_prompt.prompt # <<>>

(* C11 amended: on every path through the JSON node json_prompt has exactly the *)
(* keys prompt, negative_prompt and config; when the node fell back, its prompt *)
(* is not empty when original_prompt is not empty; when a call succeeded, its   *)
(* prompt is the string that call returned, which may be empty.                 *)
C11_JsonShape ==
    Merged =>
        LET json_prompt == Val(Val(state).json_prompt) IN
        /\ DOMAIN json_prompt = JsonKeys
        /\ JsonFellBack =>
              (Val(state).original_prompt # <<>> => json_prompt.prompt # <<>>)
        /\ Succeeded("json") # <<>> =>
              json_prompt.prompt = Val(Succeeded("json")[1].result).prompt
        /\ (Succeeded("json") = <<>> /\ Succeeded("json_strict") # <<>>) =>
              json_prompt.prompt = Val(Succeeded("json_strict")[1].result).prompt

\* the JSON node fell back when enhanced_concept was the empty string
C11_Witness ==
    /\ node = "END" /\ JsonFellBack
    /\ Val(snapshot).enhanced_concept = Some(<<>>)
    /\ Val(Val(state).json_prompt).prompt = Val(state).original_prompt

(* C12: after a run in which every capability call succeeded on its first       *)
(* attempt enhancement_notes has at least 8 entries, whatever schema-valid      *)
(* concept result the capability returned.                                      *)
C12_AtLeastEightNotes ==
    (node = "END" /\ FullSuccess) => Len(Val(state).enhancement_notes) >= 8

(* C13: within a graph run every step leaves the previous enhancement_notes as  *)
(* a prefix of the new one: no note is removed, reordered or rewritten, on the  *)
(* success, retry and fallback paths of every stage.                            *)
C13_NotesAppendOnly ==
    [][(~IsNone(state) /\ ~IsNone(state') /\ invokes' = invokes) =>
          IsPrefix(Val(state).enhancement_notes, Val(state').enhancement_notes)]_vars

\* a finished run in which Stage 1 and Stage 2 both took their except branch
C13_Witness ==
    /\ node = "END"
    /\ FallbackNotes # <<>> /\ Failed("details") # <<>>
    /\ Len(Val(state).enhancement_notes) = 8

(* C14: a quality score in the state, and the one returned to the caller, lies  *)
(* in [0, 1], for every schema-valid result of concept generation.              *)
C14_QualityInRange ==
    /\ (~IsNone(state) /\ ~IsNone(Val(state).enhancement_quality_score)) =>
          Val(Val(state).enhancement_quality_score) \in 0..100
    /\ (pc = "returned" /\ api = "enhance_prompt") =>
          Val(output).quality_score \in 0..100

(* C15: when the graph run completed, a failure of the sink does not replace    *)
(* the result by an error: enhance_prompt does not enter its failure handler    *)
(* and does not raise.                                                          *)
C15_SinkFailureNotMasking ==
    (api = "enhance_prompt" /\ node = "END") => pc \notin {"handler", "RuntimeError"}

(* C16: no two calls of save_generation_outputs write into the same directory.  *)
C16_UniqueDirectories ==
    \A i, j \in 1..Len(sink) : i # j => sink[i].dir # sink[j].dir

(* C17: at most one client is constructed per temperature, over all graph runs  *)
(* of the process.                                                              *)
C17_OneClientPerTemperature ==
    \A t \in DOMAIN constructed : constructed[t] <= 1

(* C18: original_prompt is the trimmed argument in every state of the run and   *)
(* never changes; once Stage 1 has returned, no step of Stage 2, Stage 3 or     *)
(* Stage 4 changes negative_prompt.                                             *)
C18_PromptFieldsFrozen ==
    [][/\ ~IsNone(state') => Val(state').original_prompt = Strip(user_prompt)
       /\ (~IsNone(state) /\ ~IsNone(state')) =>
             Val(state').original_prompt = Val(state).original_prompt
       /\ (~IsNone(state) /\ Ran("generate_concept") /\ invokes' = invokes) =>
             Val(state').negative_prompt = Val(state).negative_prompt]_vars

\* a finished run whose Stage 2 call succeeded after Stage 1 set negative_prompt
C18_Witness ==
    /\ node = "END" /\ Succeeded("concept") # <<>> /\ Succeeded("details") # <<>>
    /\ Val(state).negative_prompt = Some(Val(Succeeded("concept")[1].result).negative_prompt)
    /\ Val(state).negative_prompt # Some(DefaultNegative)

(* C19: Stage 1 makes at most 3 calls with the default client and at most one   *)
(* with the strict client, 4 at most; the strict call is made only after 3      *)
(* failed primary calls; a successful call is the last call of the stage; the   *)
(* fallback values are used only after 3 failed primary calls and a strict      *)
(* attempt that failed (its call, or the construction of its client).           *)
C19_ConceptRetryProtocol ==
    LET primary == Outcomes("concept")
        strict == Outcomes("concept_strict")
        stage == primary \o strict
    IN  /\ Len(primary) <= ConceptAttempts /\ Len(strict) <= 1 /\ Len(stage) <= 4
        /\ strict # <<>> => Len(Failed("concept")) = ConceptAttempts
        /\ \A i \in 1..Len(stage) : stage[i].ok => i = Len(stage)
        /\ (stage # <<>> /\ stage[Len(stage)].ok) =>
              Ran("generate_concept") /\ FallbackNotes = <<>>
        /\ FallbackNotes # <<>> =>
              /\ Len(Failed("concept")) = ConceptAttempts
              /\ \/ Len(Failed("concept_strict")) = 1
                 \/ strict = <<>> /\ FallbackNotes[1].arg = ErrInit
        /\ (Ran("generate_concept") /\ FallbackNotes = <<>>) =>
              stage # <<>> /\ stage[Len(stage)].ok

\* Stage 1 ended with the strict call succeeding after three failed primary calls
C19_Witness ==
    /\ node = "enhance_details"
    /\ Len(Failed("concept")) = ConceptAttempts /\ Len(Succeeded("concept_strict")) = 1

(* C20: the JSON node makes at most one call with the default client and at     *)
(* most one with the strict client, 2 calls at most per execution.              *)
C20_JsonRetriesOnce ==
    /\ Len(Outcomes("json")) <= 1
    /\ Len(Outcomes("json_strict")) <= 1
    /\ Len(Outcomes("json")) + Len(Outcomes("json_strict")) <= 2

---------------------------------------------------------------------------
(* Vocabulary of the properties on single stages *)

\* the step in which Stage 2 returns after its capability call failed
DetailsFailedStep ==
    /\ node = "enhance_details" /\ node' = "formats"
    /\ Len(calls') = Len(calls) + 1
    /\ calls'[Len(calls')].site = "details" /\ ~calls'[Len(calls')].ok

\* the notes of s followed by one failure note of Stage 2
WithDetailFailureNote(s, after) ==
    /\ Len(after) = Len(s.enhancement_notes) + 1
    /\ IsPrefix(s.enhancement_notes, after)
    /\ after[Len(after)].fmt = "Detail enhancement failed: "

(* C21 as stated: when the Stage 2 call fails, every field of the state,        *)
(* current_step included, and generation_config keep the values they had when   *)
(* Stage 2 started, except for one appended failure note.                       *)
C21_DetailsFailureNoOp ==
    [][DetailsFailedStep =>
          /\ config' = config
          /\ WithDetailFailureNote(Val(state), Val(state').enhancement_notes)
          /\ \A k \in DOMAIN Val(state) \ {"enhancement_notes"} :
                Val(state')[k] = Val(state)[k]]_vars

(* C21 amended: when the Stage 2 call fails, one failure note is appended and   *)
(* current_step becomes "details_enhanced_fallback"; every other field of the   *)
(* state and generation_config keep the values they had when Stage 2 started.   *)
C21_DetailsFailureKeepsFields ==
    [][DetailsFailedStep =>
          /\ config' = config
          /\ WithDetailFailureNote(Val(state), Val(state').enhancement_notes)
          /\ Val(state').current_step = "details_enhanced_fallback"
          /\ \A k \in DOMAIN Val(state) \ {"enhancement_notes", "current_step"} :
                Val(state')[k] = Val(state)[k]]_vars

\* Stage 2 has just returned through its except branch after Stage 1 succeeded
C21_Witness ==
    /\ node = "formats" /\ Failed("details") # <<>> /\ Succeeded("concept") # <<>>
    /\ Val(state).current_step = "details_enhanced_fallback"
    /\ Val(state).enhanced_concept = Some(Val(Succeeded("concept")[1].result).enhanced_prompt)

\* The value of the first rule one of whose keywords occurs in text; old if none does.
FirstMatch(text, rules, old) ==
    LET hits == {i \in 1..Len(rules) : \E kw \in rules[i].kws : Contains(text, kw)} IN
    IF hits = {} THEN old
    ELSE rules[CHOOSE i \in hits : \A j \in hits : i <= j].value

DurationRules == <<[kws |-> {KwQuick, KwBrief}, value |-> 5],
                   [kws |-> {KwLong, KwExtended}, value |-> 12]>>
MovementRules == <<[kws |-> {KwZoom}, value |-> "zoom_in"],
                   [kws |-> {KwPan}, value |-> "pan"],
                   [kws |-> {KwStatic}, value |-> "static"]>>
AestheticRules == <<[kws |-> {KwCinematic}, value |-> "cinematic"],
                    [kws |-> {KwDocumentary}, value |-> "documentary"],
                    [kws |-> {KwCommercial}, value |-> "commercial"]>>

\* where kw first occurs in text
FirstAt(text, kw) ==
    CHOOSE i \in 1..Len(text) :
        /\ SubSeq(text, i, i + Len(kw) - 1) = kw
        /\ \A j \in 1..(i - 1) : SubSeq(text, j, j + Len(kw) - 1) # kw

(* C22: when Stage 2's call succeeds, the keyword pass over the lower-cased     *)
(* text sets duration to 5 if "quick" or "brief" occurs, else to 12 if "long"   *)
(* or "extended" occurs; movement from the first of "zoom", "pan", "static"     *)
(* that occurs; aesthetic from the first of "cinematic", "documentary",         *)
(* "commercial" that occurs; a category without a match keeps its value, and    *)
(* no other field of the config changes.                                        *)
C22_KeywordPass ==
    [][(node = "enhance_details" /\ node' = "formats" /\ calls'[Len(calls')].ok) =>
          LET text == Lower(Val(calls'[Len(calls')].result)) IN
          config' = [config EXCEPT
                        !.duration_seconds = FirstMatch(text, DurationRules, @),
                        !.camera.movement = FirstMatch(text, MovementRules, @),
                        !.style.aesthetic = FirstMatch(text, AestheticRules, @)]]_vars

\* a capitalised text in which "pan" comes before "zoom", with "long" and no
\* "quick" or "brief" and no style keyword, passed over a config that was not the default
C22_Witness ==
    /\ node = "formats" /\ invokes = 2
    /\ LET raw == Val(calls[Len(calls)].result)
           text == Lower(raw)
       IN  /\ raw # text
           /\ Contains(text, KwPan) /\ Contains(text, KwZoom)
           /\ FirstAt(text, KwPan) < FirstAt(text, KwZoom)
           /\ Contains(text, KwLong) /\ ~Contains(text, KwQuick) /\ ~Contains(text, KwBrief)
           /\ \A i \in 1..Len(AestheticRules) :
                 \A kw \in AestheticRules[i].kws : ~Contains(text, kw)
    /\ config.camera.movement = "zoom_in"
    /\ config.duration_seconds = 12
    /\ config.style.aesthetic = "documentary"

OutputFields == {"json_prompt", "xml_prompt", "natural_language_prompt"}

FieldOf == [n \in FormatNodes |->
               CASE n = "generate_json" -> "json_prompt"
                 [] n = "generate_xml" -> "xml_prompt"
                 [] n = "generate_natural_language" -> "natural_language_prompt"]

\* the format nodes that have returned in this superstep, in the order of writes
FormatTrace == SelectSeq(trace, LAMBDA n : n \in FormatNodes)

(* C23: during Stage 3 what each format node returns has its own output field   *)
(* and no other; generation_config is not changed; when the superstep ends      *)
(* every field but the three outputs has the value it had when Stage 3 started, *)
(* and each output field is what its own node returned.                         *)
C23_BranchesWriteOwnField ==
    [][node = "formats" =>
          /\ config' = config
          /\ \A i \in 1..Len(writes') : DOMAIN writes'[i] = {FieldOf[FormatTrace'[i]]}
          /\ \A k \in DOMAIN Val(state) \ OutputFields : Val(state')[k] = Val(state)[k]
          /\ node' = "finalize" =>
                /\ Len(writes) = Cardinality(FormatNodes)
                /\ \A i \in 1..Len(writes) :
                      Val(state')[FieldOf[FormatTrace[i]]] = writes[i][FieldOf[FormatTrace[i]]]]_vars

\* Stage 3 ended with all three nodes on their fallback paths
C23_Witness ==
    /\ node = "finalize" /\ JsonFellBack /\ Failed("nl") # <<>>
    /\ ~Parses(ConstructXml(Val(snapshot), config))
    /\ Val(state).current_step \in {"details_enhanced", "details_enhanced_fallback"}

FormatNote == [f \in OutputFields |->
                  CASE f = "json_prompt" -> "Generated JSON format"
                    [] f = "xml_prompt" -> "Generated XML format"
                    [] f = "natural_language_prompt" -> "Generated natural language format"]

(* C24: for any state, finalize keeps the notes it was given and appends one    *)
(* note per output that is present, one warning if an output is missing, then   *)
(* exactly two summary notes; it sets current_step to "completed", sets the     *)
(* score to 0.7 only if it was absent and keeps it otherwise, and changes no    *)
(* output, enhanced_concept, negative_prompt, original_prompt or config.        *)
C24_FinalizeBookkeeping ==
    [][(node = "finalize" /\ node' = "END") =>
          LET before == Val(state)
              after == Val(state')
              present == {f \in OutputFields : ~IsNone(before[f])}
              missing == present # OutputFields
              first == Len(before.enhancement_notes)
              added == SubSeq(after.enhancement_notes, first + 1,
                              Len(after.enhancement_notes))
              n == Cardinality(present)
          IN  /\ IsPrefix(before.enhancement_notes, after.enhancement_notes)
              /\ Len(added) = n + (IF missing THEN 1 ELSE 0) + 2
              /\ {added[i].fmt : i \in 1..n} = {FormatNote[f] : f \in present}
              /\ missing => added[n + 1].fmt = "Warning: Missing outputs: "
              /\ added[Len(added) - 1].fmt = "Enhancement process completed"
              /\ added[Len(added)].fmt = "Final quality score: "
              /\ after.current_step = "completed"
              /\ after.enhancement_quality_score =
                    IF IsNone(before.enhancement_quality_score)
                    THEN Some(70) ELSE before.enhancement_quality_score
              /\ \A k \in DOMAIN before \ {"enhancement_notes", "current_step",
                                           "enhancement_quality_score"} :
                    after[k] = before[k]
              /\ config' = config]_vars

\* finalize returned for a state with a score of 0, an empty natural-language
\* output and no JSON output
C24_Witness ==
    /\ node = "END" /\ trace = <<"finalize">>
    /\ Val(state).enhancement_quality_score = Some(0)
    /\ Val(state).natural_language_prompt = Some(<<>>)
    /\ IsNone(Val(state).json_prompt)
    /\ \E i \in 1..Len(Val(state).enhancement_notes) :
          Val(state).enhancement_notes[i].fmt = "Warning: Missing outputs: "

\* a step in which a node function returns
NodeReturns == ~IsNone(state) /\ Len(trace') = Len(trace) + 1

(* C25 as stated: across the completion of every stage (Stage 1, Stage 2, each  *)
(* Stage-3 branch, Stage 4), on success and fallback paths, the length of       *)
(* enhancement_notes strictly increases.                                        *)
C25_EveryStageAppends ==
    [][NodeReturns =>
          Len(Val(state').enhancement_notes) > Len(Val(state).enhancement_notes)]_vars

(* C25 amended: the length of enhancement_notes strictly increases across       *)
(* Stage 2 (by one), Stage 4 (by at least two) and the fallback path of Stage 1 *)
(* (by one); across a successful Stage 1 it grows by the number of notes the    *)
(* capability returned, which may be zero; a Stage-3 branch returns no notes    *)
(* and leaves the length unchanged.                                             *)
C25_StagesThatAppend ==
    [][NodeReturns =>
          LET name == trace'[Len(trace')]
              grown == Len(Val(state').enhancement_notes) - Len(Val(state).enhancement_notes)
          IN  /\ name = "generate_concept" =>
                    grown = IF Val(state').current_step = "concept_generated_fallback"
                            THEN 1
                            ELSE Len(Val(calls'[Len(calls')].result).enhancement_notes)
              /\ name = "enhance_details" => grown = 1
              /\ name \in FormatNodes =>
                    /\ grown = 0
                    /\ "enhancement_notes" \notin DOMAIN writes'[Len(writes')]
              /\ name = "finalize" => grown >= 2]_vars

\* a finished run whose Stage 1 succeeded with a result that has no notes
C25_Witness ==
    /\ node = "END" /\ Succeeded("concept") # <<>>
    /\ Val(Succeeded("concept")[1].result).enhancement_notes = <<>>
    /\ Succeeded("details") # <<>>
    /\ Len(Val(state).enhancement_notes) = 7

\* the camera and style attributes of an XML document
CameraAttrs(doc) == doc.children[3].attrs
StyleAttrs(doc) == doc.children[4].attrs

(* C26 as stated: when the JSON node falls back, the document's prompt is the   *)
(* state's enhanced_concept, its negative_prompt the state's negative_prompt,   *)
(* and its config carries the current generation_config (duration, camera       *)
(* movement, angle, lens, style aesthetic, rendering), so that it states the    *)
(* same camera and style settings as a constructed XML output of the same run.  *)
C26_JsonFallbackFromState ==
    (Merged /\ JsonFellBack) =>
        LET json_prompt == Val(Val(state).json_prompt)
            doc == Val(Val(state).xml_prompt)
        IN  /\ Some(json_prompt.prompt) = Val(snapshot).enhanced_concept
            /\ Some(json_prompt.negative_prompt) = Val(snapshot).negative_prompt
            /\ json_prompt.config.duration_seconds = config.duration_seconds
            /\ json_prompt.config.camera =
                  [movement |-> config.camera.movement, angle |-> config.camera.angle,
                   lens |-> config.camera.lens]
            /\ json_prompt.config.style =
                  [aesthetic |-> config.style.aesthetic, rendering |-> config.style.rendering]
            /\ Parses(ConstructXml(Val(snapshot), config)) =>
                  /\ CameraAttrs(doc) = json_prompt.config.camera
                  /\ StyleAttrs(doc) = json_prompt.config.style

(* C26 amended: when the JSON node falls back, the document's prompt is the     *)
(* state's enhanced_concept, or original_prompt if that is empty; its           *)
(* negative_prompt is the state's negative_prompt, or "blurry, low quality,     *)
(* distorted" if that is empty; its config is the fixed default document        *)
(* (duration 8, 16:9, audio on, static, medium_shot, 50mm_equivalent,           *)
(* photorealistic, high_quality) whatever generation_config holds.              *)
C26_JsonFallbackDocument ==
    (Merged /\ JsonFellBack) =>
        LET json_prompt == Val(Val(state).json_prompt)
            concept == Val(snapshot).enhanced_concept
            negative == Val(snapshot).negative_prompt
        IN  /\ json_prompt.prompt =
                  IF Val(concept) # <<>> THEN Val(concept) ELSE Val(state).original_prompt
            /\ json_prompt.negative_prompt =
                  IF Val(negative) # <<>> THEN Val(negative) ELSE <<"b", "l", "u", "r">>
            /\ json_prompt.config =
                  [duration_seconds |-> 8, aspect_ratio |-> "16:9", generate_audio |-> TRUE,
                   camera |-> [movement |-> "static", angle |-> "medium_shot",
                               lens |-> "50mm_equivalent"],
                   style |-> [aesthetic |-> "photorealistic", rendering |-> "high_quality"]]

\* the JSON node fell back in a run whose Stage 2 had changed duration and camera
\* movement and whose negative_prompt was empty
C26_Witness ==
    /\ node = "END" /\ JsonFellBack
    /\ config.camera.movement = "zoom_in" /\ config.duration_seconds = 5
    /\ Val(state).negative_prompt = Some(<<>>)
    /\ Val(Val(state).json_prompt).config.camera.movement = "static"

(* C27: enhance_prompt invokes the graph at most twice, the second time only    *)
(* after the first invocation raised; when both raised it makes at most one     *)
(* save, of minimal failure artifacts with the single note "Workflow failed",   *)
(* and raises RuntimeError; once an invocation has succeeded the sink is        *)
(* written exactly once, with the outputs, and saved_dir of the returned output *)
(* is the directory written.                                                    *)
C27_InvokeAndSaveProtocol ==
    api = "enhance_prompt" =>
        /\ invokes <= 2
        /\ invokes = 2 => attempt = 1
        /\ (pc = "RuntimeError" /\ node = "raised") =>
              /\ invokes = 2
              /\ Len(sink) <= 1
              /\ \A i \in 1..Len(sink) :
                    /\ sink[i].kind = "failure"
                    /\ Len(sink[i].notes) = 1
                    /\ sink[i].notes[1].fmt = "Workflow failed: "
        /\ (node = "END" /\ pc \notin {"in_graph", "save"}) =>
              /\ pc = "returned"
              /\ Len(sink) = 1
              /\ sink[1].kind = "outputs"
              /\ Val(output).saved_dir = <<sink[1].dir>>

\* the score Stage 1 produced in this graph run: the quality_score of the object the
\* capability returned to its successful call, or 0.5 when every call failed
StageOneScore ==
    LET ok == Succeeded("concept") \o Succeeded("concept_strict")
    IN  IF ok = <<>> THEN 50 ELSE Val(ok[1].result).quality_score

(* C28: in every graph run, from the return of Stage 1 on, quality_score is      *)
(* present and equals the value Stage 1 produced (the capability's score on the *)
(* success and strict-retry paths, 0.5 on the fallback path); so it is present  *)
(* when finalize starts, the 0.7 default of Stage 4 is never applied, and the   *)
(* final state and its last note carry Stage 1's value.                         *)
C28_ScoreFromStageOne ==
    Ran("generate_concept") =>
        /\ ~IsNone(Val(state).enhancement_quality_score)
        /\ Val(state).enhancement_quality_score = Some(StageOneScore)
        /\ node = "END" =>
              LET notes == Val(state).enhancement_notes
              IN  notes[Len(notes)] = Note("Final quality score: ", ToString(StageOneScore))

\* a run that ended after the strict retry returned an object whose score is 0
C28_Witness ==
    /\ node = "END"
    /\ Succeeded("concept") = <<>>
    /\ Succeeded("concept_strict") # <<>>
    /\ StageOneScore = 0
    /\ Val(state).enhancement_quality_score = Some(0)

(* C29: when enhance_prompt invokes the graph a second time after a failed      *)
(* first invocation, the second invocation starts from the freshly created      *)
(* initial state: the notes are exactly ["Workflow initialized"], every other   *)
(* field is as create_input_state made it, and generation_config has its        *)
(* default values, whatever the failed invocation did.                          *)
C29_RetryStartsFresh ==
    (api = "enhance_prompt" /\ invokes = 2 /\ pc = "in_graph" /\ node = "START") =>
        /\ state = Some(create_input_state(Strip(user_prompt)))
        /\ config = ConfigSettings

\* the XML node returned the fixed template: the constructed document did not parse
XmlFellBack == Merged /\ ~Parses(ConstructXml(Val(snapshot), config))

(* C30: the fixed XML fallback template and the fixed JSON fallback document    *)
(* state the default settings of a default ConfigSettings record (camera        *)
(* movement "static", angle "medium_shot", lens "50mm_equivalent", style        *)
(* aesthetic "photorealistic", rendering "high_quality"), and when both nodes   *)
(* fell back in one run the camera and style attributes of the XML output equal *)
(* the corresponding values of the JSON output's config.                        *)
C30_FallbackDefaultsAgree ==
    LET camera == [movement |-> CameraConfig.movement, angle |-> CameraConfig.angle,
                   lens |-> CameraConfig.lens]
        style == [aesthetic |-> StyleConfig.aesthetic, rendering |-> StyleConfig.rendering]
    IN  /\ XmlFellBack =>
              /\ CameraAttrs(Val(Val(state).xml_prompt)) = camera
              /\ StyleAttrs(Val(Val(state).xml_prompt)) = style
        /\ (Merged /\ JsonFellBack) =>
              /\ Val(Val(state).json_prompt).config.camera = camera
              /\ Val(Val(state).json_prompt).config.style = style
        /\ (XmlFellBack /\ JsonFellBack) =>
              /\ CameraAttrs(Val(Val(state).xml_prompt))
                    = Val(Val(state).json_prompt).config.camera
              /\ StyleAttrs(Val(Val(state).xml_prompt))
                    = Val(Val(state).json_prompt).config.style

====
